---- MODULE Spec2Model ----
(***************************************************************************)
(* Model of governor's Jitter (src/src/jitter.rs): an interval             *)
(* [min, min+interval] from which a random wait offset is drawn and added  *)
(* to a Duration or an Instant.                                            *)
(*                                                                         *)
(* Durations are kept as the pair the standard library keeps (whole        *)
(* seconds as a u64, nanoseconds below one second), and the scaling by     *)
(* the random f32 is computed bit for bit as IEEE-754 single precision     *)
(* computes it: values wider than TLC's integers are sequences of 12-bit   *)
(* limbs, least significant first.                                         *)
(***************************************************************************)
EXTENDS Integers, Sequences, FiniteSets, TLC

VARIABLES jitter, ctor, last, draws, pc, range, scaled, arg, out

vars == <<jitter, ctor, last, draws, pc, range, scaled, arg, out>>

---------------------------------------------------------------------------
(* Unbounded naturals: u64 / u128 arithmetic of the standard library.      *)

LIMB == 2^12

Pow2(n) == 2^n

RECURSIVE BigNorm(_)
BigNorm(a) ==
    IF a = <<>> THEN <<>>
    ELSE IF a[Len(a)] = 0 THEN BigNorm(SubSeq(a, 1, Len(a) - 1)) ELSE a

RECURSIVE BigFromInt(_)
BigFromInt(n) ==
    IF n = 0 THEN <<>> ELSE <<n % LIMB>> \o BigFromInt(n \div LIMB)

RECURSIVE BigToInt(_)
BigToInt(a) ==
    IF a = <<>> THEN 0 ELSE Head(a) + LIMB * BigToInt(Tail(a))

BigRest(a) == IF a = <<>> THEN <<>> ELSE Tail(a)

BigLow(a) == IF a = <<>> THEN 0 ELSE Head(a)

RECURSIVE BigAddC(_, _, _)
BigAddC(a, b, c) ==
    IF a = <<>> /\ b = <<>>
    THEN (IF c = 0 THEN <<>> ELSE <<c>>)
    ELSE LET s == BigLow(a) + BigLow(b) + c
         IN  <<s % LIMB>> \o BigAddC(BigRest(a), BigRest(b), s \div LIMB)

BigAdd(a, b) == BigAddC(a, b, 0)

RECURSIVE BigCmpFrom(_, _, _)
BigCmpFrom(a, b, i) ==
    IF i = 0 THEN 0
    ELSE IF a[i] < b[i] THEN -1
    ELSE IF a[i] > b[i] THEN 1
    ELSE BigCmpFrom(a, b, i - 1)

\* -1, 0 or 1 as a < b, a = b, a > b (both normalised).
BigCmp(a, b) ==
    IF Len(a) < Len(b) THEN -1
    ELSE IF Len(a) > Len(b) THEN 1
    ELSE BigCmpFrom(a, b, Len(a))

BigLe(a, b) == BigCmp(a, b) <= 0

BigLt(a, b) == BigCmp(a, b) < 0

RECURSIVE BigSubB(_, _, _)
BigSubB(a, b, c) ==
    IF a = <<>> THEN <<>>
    ELSE LET d == BigLow(a) - BigLow(b) - c
         IN  IF d < 0
             THEN <<d + LIMB>> \o BigSubB(Tail(a), BigRest(b), 1)
             ELSE <<d>> \o BigSubB(Tail(a), BigRest(b), 0)

\* a - b for a >= b.
BigSub(a, b) == BigNorm(BigSubB(a, b, 0))

RECURSIVE BigMulIntC(_, _, _)
BigMulIntC(a, k, c) ==
    IF a = <<>> THEN BigFromInt(c)
    ELSE LET p == Head(a) * k + c
         IN  <<p % LIMB>> \o BigMulIntC(Tail(a), k, p \div LIMB)

\* a * k for a limb-sized k (k <= LIMB).
BigMulInt(a, k) == IF k = 0 THEN <<>> ELSE BigMulIntC(a, k, 0)

RECURSIVE BigMul(_, _)
BigMul(a, b) ==
    IF b = <<>> \/ a = <<>> THEN <<>>
    ELSE BigAdd(BigMulInt(a, Head(b)),
                LET r == BigMul(a, Tail(b))
                IN  IF r = <<>> THEN <<>> ELSE <<0>> \o r)

Zeros(n) == [i \in 1..n |-> 0]

\* a << s
BigShl(a, s) ==
    IF a = <<>> THEN <<>>
    ELSE Zeros(s \div 12) \o BigMulInt(a, Pow2(s % 12))

\* a >> s
BigShr(a, s) ==
    LET q == s \div 12
        k == s % 12
        b == IF q >= Len(a) THEN <<>> ELSE SubSeq(a, q + 1, Len(a))
    IN  BigNorm([i \in 1..Len(b) |->
                   (b[i] \div Pow2(k))
                   + (IF i < Len(b) THEN (b[i + 1] % Pow2(k)) * Pow2(12 - k) ELSE 0)])

\* a & ((1 << s) - 1)
BigMask(a, s) ==
    LET q == s \div 12
        k == s % 12
    IN  IF q >= Len(a) THEN a
        ELSE BigNorm(SubSeq(a, 1, q) \o <<a[q + 1] % Pow2(k)>>)

RECURSIVE IntBitLen(_)
IntBitLen(n) == IF n = 0 THEN 0 ELSE 1 + IntBitLen(n \div 2)

BigBitLen(a) ==
    IF a = <<>> THEN 0 ELSE 12 * (Len(a) - 1) + IntBitLen(a[Len(a)])

---------------------------------------------------------------------------
(* IEEE-754 single precision.  A finite non-negative f32 is [m, e] with    *)
(* value m * 2^e, where m = 0 (and e = 0) or 2^23 <= m < 2^24.  Every      *)
(* operation rounds to nearest, ties to even.                              *)

MANT_BITS == 23

F32Zero == [m |-> 0, e |-> 0]

\* The f32 nearest to x * 2^e, for an unbounded natural x.
RoundF32(x, e) ==
    LET n == BigBitLen(x)
        s == n - (MANT_BITS + 1)
    IN  IF n = 0 THEN F32Zero
        ELSE IF s <= 0
        THEN [m |-> BigToInt(x) * Pow2(-s), e |-> e + s]
        ELSE LET q    == BigToInt(BigShr(x, s))
                 rem  == BigMask(x, s)
                 half == BigShl(<<1>>, s - 1)
                 c    == BigCmp(rem, half)
                 up   == c > 0 \/ (c = 0 /\ q % 2 = 1)
                 q1   == IF up THEN q + 1 ELSE q
             IN  IF q1 = Pow2(MANT_BITS + 1)
                 THEN [m |-> Pow2(MANT_BITS), e |-> e + s + 1]
                 ELSE [m |-> q1, e |-> e + s]

\* `x as f32` for an unsigned integer x.
UIntAsF32(x) == RoundF32(x, 0)

F32Mul(a, b) ==
    RoundF32(BigMul(BigFromInt(a.m), BigFromInt(b.m)), a.e + b.e)

F32Add(a, b) ==
    IF a.m = 0 THEN b
    ELSE IF b.m = 0 THEN a
    ELSE LET lo == IF a.e < b.e THEN a.e ELSE b.e
         IN  RoundF32(BigAdd(BigShl(BigFromInt(a.m), a.e - lo),
                             BigShl(BigFromInt(b.m), b.e - lo)), lo)

RECURSIVE LongDiv(_, _, _, _)
\* n more quotient bits of rem / d, appended to q.
LongDiv(rem, d, q, n) ==
    IF n = 0 THEN [q |-> q, rem |-> rem]
    ELSE IF 2 * rem >= d
    THEN LongDiv(2 * rem - d, d, 2 * q + 1, n - 1)
    ELSE LongDiv(2 * rem, d, 2 * q, n - 1)

\* a / b for b > 0: 27 fraction bits of the quotient of the significands and
\* a sticky bit decide the rounding.
F32Div(a, b) ==
    IF a.m = 0 THEN F32Zero
    ELSE LET r == LongDiv(a.m % b.m, b.m, a.m \div b.m, MANT_BITS + 4)
             x == 2 * r.q + (IF r.rem = 0 THEN 0 ELSE 1)
         IN  RoundF32(BigFromInt(x), a.e - b.e - (MANT_BITS + 5))

---------------------------------------------------------------------------
(* core::time::Duration: secs is a u64 (an unbounded natural below 2^64),  *)
(* nanos an integer below NANOS_PER_SEC.                                   *)

NANOS_PER_SEC == 1000000000

U64_MAX == BigSub(BigShl(<<1>>, 64), <<1>>)

I64_MAX == BigSub(BigShl(<<1>>, 63), <<1>>)

Dur(s, n) == [secs |-> s, nanos |-> n]

Secs(n) == Dur(BigFromInt(n), 0)

Nanos(n) == Dur(BigFromInt(n \div NANOS_PER_SEC), n % NANOS_PER_SEC)

DUR_ZERO == Dur(<<>>, 0)

DUR_MAX == Dur(U64_MAX, NANOS_PER_SEC - 1)

DurLe(a, b) ==
    LET c == BigCmp(a.secs, b.secs)
    IN  c < 0 \/ (c = 0 /\ a.nanos <= b.nanos)

DurLt(a, b) == DurLe(a, b) /\ a # b

\* Option<T>: None, or Some(v).
None == [some |-> FALSE]

Some(v) == [some |-> TRUE, val |-> v]

\* u64::checked_add
U64CheckedAdd(a, b) ==
    LET s == BigAdd(a, b)
    IN  IF BigLe(s, U64_MAX) THEN Some(s) ELSE None

\* i64::checked_add for non-negative operands
I64CheckedAdd(a, b) ==
    LET s == BigAdd(a, b)
    IN  IF BigLe(s, I64_MAX) THEN Some(s) ELSE None

\* Duration::saturating_add in the place of checked_add: the largest Duration
\* instead of None.
DurSaturatingAdd(a, b) ==
    LET s == BigAdd(BigAdd(BigMul(a.secs, BigFromInt(NANOS_PER_SEC)), BigFromInt(a.nanos)),
                    BigAdd(BigMul(b.secs, BigFromInt(NANOS_PER_SEC)), BigFromInt(b.nanos)))
    IN  IF BigLe(s, BigAdd(BigMul(U64_MAX, BigFromInt(NANOS_PER_SEC)),
                           BigFromInt(NANOS_PER_SEC - 1)))
        THEN Some(Dur(BigAdd(BigAdd(a.secs, b.secs),
                             BigFromInt((a.nanos + b.nanos) \div NANOS_PER_SEC)),
                      (a.nanos + b.nanos) % NANOS_PER_SEC))
        ELSE Some(DUR_MAX)

\* Duration::checked_add
DurCheckedAdd(a, b) ==
    LET s == U64CheckedAdd(a.secs, b.secs)
        n == a.nanos + b.nanos
    IN  IF ~s.some THEN None
        ELSE IF n >= NANOS_PER_SEC
        THEN LET s1 == U64CheckedAdd(s.val, <<1>>)
             IN  IF s1.some THEN Some(Dur(s1.val, n - NANOS_PER_SEC)) ELSE None
        ELSE Some(Dur(s.val, n))

\* Instant::checked_add (Timespec::checked_add_duration), the instant being
\* at or after the clock's zero.
InstantCheckedAdd(t, d) ==
    LET s == IF BigLe(d.secs, I64_MAX) THEN I64CheckedAdd(t.secs, d.secs) ELSE None
        n == t.nanos + d.nanos
    IN  IF ~s.some THEN None
        ELSE IF n >= NANOS_PER_SEC
        THEN LET s1 == I64CheckedAdd(s.val, <<1>>)
             IN  IF s1.some THEN Some(Dur(s1.val, n - NANOS_PER_SEC)) ELSE None
        ELSE Some(Dur(s.val, n))

\* Duration::as_secs_f32
as_secs_f32(d) ==
    F32Add(UIntAsF32(d.secs),
           F32Div(UIntAsF32(BigFromInt(d.nanos)),
                  UIntAsF32(BigFromInt(NANOS_PER_SEC))))

\* The nanoseconds nanos_tmp >> offset, rounded to nearest, ties to even.
RoundNanos(nanos_tmp, offset) ==
    LET nanos   == BigToInt(BigShr(nanos_tmp, offset))
        rem     == BigMask(nanos_tmp, offset)
        c       == BigCmp(rem, BigShl(<<1>>, offset - 1))
        is_tie  == c = 0
        is_even == nanos % 2 = 0
        rem_msb == c < 0
        add_ns  == ~(rem_msb \/ (is_even /\ is_tie))
    IN  nanos + (IF add_ns THEN 1 ELSE 0)

\* Duration::try_from_secs_f32 for a finite non-negative f32, as the current
\* standard library converts: to the nearest nanosecond, ties to even.  None
\* when the value does not fit.
try_from_secs_f32(f) ==
    LET mant == BigFromInt(f.m)
        exp  == f.e + MANT_BITS
    IN  IF f.m = 0 \/ exp < -31 THEN Some(DUR_ZERO)
        ELSE IF exp < 0
        THEN LET t == BigShl(mant, 41 + exp)
                 nanos_tmp == BigMul(BigFromInt(NANOS_PER_SEC), t)
             IN  Some(Dur(<<>>, RoundNanos(nanos_tmp, MANT_BITS + 41)))
        ELSE IF exp < MANT_BITS
        THEN LET secs == BigShr(mant, MANT_BITS - exp)
                 t    == BigMask(BigShl(mant, exp), MANT_BITS)
                 nanos_tmp == BigMul(BigFromInt(NANOS_PER_SEC), t)
             IN  Some(Dur(secs, RoundNanos(nanos_tmp, MANT_BITS)))
        ELSE IF exp < 64
        THEN Some(Dur(BigShl(mant, exp - MANT_BITS), 0))
        ELSE None

\* A scaling that loses the draw: the factor cast to an integer is 0.
mul_f32_integer_factor(d, rhs) == Some(DUR_ZERO)

\* Duration::mul_f32: from_secs_f32(rhs * self.as_secs_f32()); None stands
\* for from_secs_f32's panic.
mul_f32(d, rhs) == try_from_secs_f32(F32Mul(rhs, as_secs_f32(d)))

---------------------------------------------------------------------------
(* The random source: rand::random::<f32>() returns k * 2^-24 for a        *)
(* uniform 24-bit k, a value of [0, 1).                                    *)

DRAW_BITS == 24

DrawAsF32(k) == RoundF32(BigFromInt(k), -DRAW_BITS)

DRAW_MAX == Pow2(DRAW_BITS) - 1

\* The draws taken: 0, the smallest positive one, 1/2, about 0.9, the largest.
DrawSet == {0, 1, Pow2(DRAW_BITS - 1), 15099494, DRAW_MAX}

---------------------------------------------------------------------------
(* Jitter                                                                  *)

\* struct Jitter { min, interval }
Jitter(min, interval) == [min |-> min, interval |-> interval]

\* A "no jitter" constant that still has an interval.
NONE_with_interval == Jitter(Secs(0), Secs(1))

\* Jitter::NONE
NONE == Jitter(Secs(0), Secs(0))

\* up_to with its fields swapped.
up_to_as_min(max) == Jitter(max, Dur(<<>>, 0))

\* Jitter::up_to
up_to(max) == Jitter(Dur(<<>>, 0), max)

\* Jitter::new
new(min, interval) == Jitter(min, interval)

\* get without the `self.min +`.
get_without_min(self, rnd) == mul_f32(self.interval, rnd)

\* get scaling min in the place of interval.
get_scaling_min(self, rnd) ==
    LET s == mul_f32(self.min, rnd)
    IN  IF s.some THEN DurCheckedAdd(self.interval, s.val) ELSE None

\* Jitter::get for the draw rnd (`range` in the source): None stands for a panic.
get(self, rnd) ==
    LET s == mul_f32(self.interval, rnd)
    IN  IF s.some THEN DurCheckedAdd(self.min, s.val) ELSE None

\* Add<Duration> without the `+ rhs`.
add_duration_without_rhs(self, rhs, rnd) == mul_f32(self.interval, rnd)

\* impl Add<Duration> for Jitter: self.get() + rhs
add_duration(self, rhs, rnd) ==
    LET g == get(self, rnd)
    IN  IF g.some THEN DurCheckedAdd(g.val, rhs) ELSE None

\* Add<Instant> without the sample.
add_instant_without_sample(self, rhs, rnd) == Some(rhs)

\* impl Add<Instant> for Jitter: rhs + self.get()
add_instant(self, rhs, rnd) ==
    LET g == get(self, rnd)
    IN  IF g.some THEN InstantCheckedAdd(rhs, g.val) ELSE None

---------------------------------------------------------------------------
(* Inputs                                                                  *)

MaxDraws == 2

MinSet == {DUR_ZERO, Secs(1), DUR_MAX}

SpanSet ==
    {DUR_ZERO, Nanos(1), Nanos(3), Nanos(500000000), Secs(1),
     Nanos(576267360), Dur(BigFromInt(Pow2(24) + 3), 999999999)}

DurationSet == {DUR_ZERO, Secs(24), DUR_MAX}

InstantSet == {Dur(BigFromInt(1000), 5), Dur(I64_MAX, 0)}

CtorSet ==
    {[fn |-> "NONE", a |-> DUR_ZERO, b |-> DUR_ZERO]}
    \cup {[fn |-> "up_to", a |-> DUR_ZERO, b |-> m] : m \in SpanSet}
    \cup {[fn |-> "new", a |-> a, b |-> b] : a \in MinSet, b \in SpanSet}

Construct(c) ==
    IF c.fn = "NONE" THEN NONE
    ELSE IF c.fn = "up_to" THEN up_to(c.b)
    ELSE new(c.a, c.b)

NoCall == [op |-> "none", rhs |-> DUR_ZERO, range |-> 0, res |-> None]

Idle == [t \in {} |-> 0]

---------------------------------------------------------------------------
(* Sequential use: one caller, each operation one step.                    *)

Init ==
    /\ \E c \in CtorSet : ctor = c /\ jitter = Construct(c)
    /\ last = NoCall
    /\ draws = 0
    /\ pc = Idle /\ range = Idle /\ scaled = Idle /\ arg = Idle /\ out = Idle

Get(k) ==
    /\ draws < MaxDraws
    /\ draws' = draws + 1
    /\ last' = [op |-> "get", rhs |-> DUR_ZERO, range |-> k,
                res |-> get(jitter, DrawAsF32(k))]
    /\ UNCHANGED <<jitter, ctor, pc, range, scaled, arg, out>>

\* Add<Duration> sampling twice: two draws for one call.
AddDurationTwoDraws(rhs, k) ==
    /\ draws < MaxDraws
    /\ draws' = draws + 2
    /\ last' = [op |-> "add_duration", rhs |-> rhs, range |-> k,
                res |-> add_duration(jitter, rhs, DrawAsF32(k))]
    /\ UNCHANGED <<jitter, ctor, pc, range, scaled, arg, out>>

AddDuration(rhs, k) ==
    /\ draws < MaxDraws
    /\ draws' = draws + 1
    /\ last' = [op |-> "add_duration", rhs |-> rhs, range |-> k,
                res |-> add_duration(jitter, rhs, DrawAsF32(k))]
    /\ UNCHANGED <<jitter, ctor, pc, range, scaled, arg, out>>

AddInstant(rhs, k) ==
    /\ draws < MaxDraws
    /\ draws' = draws + 1
    /\ last' = [op |-> "add_instant", rhs |-> rhs, range |-> k,
                res |-> add_instant(jitter, rhs, DrawAsF32(k))]
    /\ UNCHANGED <<jitter, ctor, pc, range, scaled, arg, out>>

Next ==
    \/ \E k \in DrawSet : Get(k)
    \/ \E rhs \in DurationSet, k \in DrawSet : AddDuration(rhs, k)
    \/ \E rhs \in InstantSet, k \in DrawSet : AddInstant(rhs, k)

Spec == Init /\ [][Next]_vars

---------------------------------------------------------------------------
(* Concurrent use: NThreads threads share one Jitter (it is Copy and is    *)
(* read through &self); each makes one call, a step at a time, drawing     *)
(* from its own thread-local generator.                                    *)

NThreads == 2

Threads == 1..NThreads

ConcCtorSet ==
    {[fn |-> "new", a |-> Secs(1), b |-> Secs(1)],
     [fn |-> "up_to", a |-> DUR_ZERO, b |-> Nanos(3)],
     [fn |-> "new", a |-> DUR_MAX, b |-> Secs(1)]}

ConcDrawSet == {Pow2(DRAW_BITS - 1), DRAW_MAX}

CallSet ==
    {[op |-> "get", rhs |-> DUR_ZERO],
     [op |-> "add_duration", rhs |-> Secs(24)],
     [op |-> "add_instant", rhs |-> Dur(BigFromInt(1000), 5)]}

ConcInit ==
    /\ \E c \in ConcCtorSet : ctor = c /\ jitter = Construct(c)
    /\ last = NoCall
    /\ draws = [t \in Threads |-> 0]
    /\ pc = [t \in Threads |-> "idle"]
    /\ range = [t \in Threads |-> 0]
    /\ scaled = [t \in Threads |-> None]
    /\ arg = [t \in Threads |-> [op |-> "none", rhs |-> DUR_ZERO]]
    /\ out = [t \in Threads |-> None]

\* A thread calls get, jitter + duration or jitter + instant.
Call(t, a) ==
    /\ pc[t] = "idle"
    /\ arg' = [arg EXCEPT ![t] = a]
    /\ pc' = [pc EXCEPT ![t] = "draw"]
    /\ UNCHANGED <<jitter, ctor, last, draws, range, scaled, out>>

\* let range = rand::random::<f32>();
Draw(t, k) ==
    /\ pc[t] = "draw"
    /\ range' = [range EXCEPT ![t] = k]
    /\ draws' = [draws EXCEPT ![t] = @ + 1]
    /\ pc' = [pc EXCEPT ![t] = "scale"]
    /\ UNCHANGED <<jitter, ctor, last, scaled, arg, out>>

\* The scaling memoised in one place that all threads share: a thread takes
\* the value another thread has computed.
ScaleMemoised(t) ==
    /\ pc[t] = "scale"
    /\ scaled' = [scaled EXCEPT ![t] =
                    IF \E u \in Threads : pc[u] \in {"add_min", "combine", "done"}
                    THEN scaled[CHOOSE u \in Threads : pc[u] \in {"add_min", "combine", "done"}]
                    ELSE mul_f32(jitter.interval, DrawAsF32(range[t]))]
    /\ pc' = [pc EXCEPT ![t] = IF scaled'[t].some THEN "add_min" ELSE "panicked"]
    /\ UNCHANGED <<jitter, ctor, last, draws, range, arg, out>>

\* self.interval.mul_f32(range)
Scale(t) ==
    /\ pc[t] = "scale"
    /\ scaled' = [scaled EXCEPT ![t] = mul_f32(jitter.interval, DrawAsF32(range[t]))]
    /\ pc' = [pc EXCEPT ![t] = IF scaled'[t].some THEN "add_min" ELSE "panicked"]
    /\ UNCHANGED <<jitter, ctor, last, draws, range, arg, out>>

\* self.min + <the scaled interval>; get returns.
AddMin(t) ==
    /\ pc[t] = "add_min"
    /\ out' = [out EXCEPT ![t] = DurCheckedAdd(jitter.min, scaled[t].val)]
    /\ pc' = [pc EXCEPT ![t] =
                IF ~out'[t].some THEN "panicked"
                ELSE IF arg[t].op = "get" THEN "done" ELSE "combine"]
    /\ UNCHANGED <<jitter, ctor, last, draws, range, scaled, arg>>

\* self.get() + rhs, or rhs + self.get()
Combine(t) ==
    /\ pc[t] = "combine"
    /\ out' = [out EXCEPT ![t] =
                 IF arg[t].op = "add_duration"
                 THEN DurCheckedAdd(out[t].val, arg[t].rhs)
                 ELSE InstantCheckedAdd(arg[t].rhs, out[t].val)]
    /\ pc' = [pc EXCEPT ![t] = IF out'[t].some THEN "done" ELSE "panicked"]
    /\ UNCHANGED <<jitter, ctor, last, draws, range, scaled, arg>>

ConcNext ==
    \E t \in Threads :
        \/ \E a \in CallSet : Call(t, a)
        \/ \E k \in ConcDrawSet : Draw(t, k)
        \/ Scale(t)
        \/ AddMin(t)
        \/ Combine(t)

ConcSpec == ConcInit /\ [][ConcNext]_vars

---------------------------------------------------------------------------
(* Properties.  Times are compared as exact nanosecond counts.             *)

TotalNanos(d) ==
    BigAdd(BigMul(d.secs, BigFromInt(NANOS_PER_SEC)), BigFromInt(d.nanos))

\* The one-call result of a call a = [op, rhs] with the draw k.
Apply(j, a, k) ==
    IF a.op = "get" THEN get(j, DrawAsF32(k))
    ELSE IF a.op = "add_duration" THEN add_duration(j, a.rhs, DrawAsF32(k))
    ELSE add_instant(j, a.rhs, DrawAsF32(k))

\* base <= v, in nanoseconds.
AtLeast(v, base) == BigLe(base, v)

\* v < base + span, in nanoseconds.
StrictlyBelow(v, base, span) == BigLt(v, BigAdd(base, span))

\* v <= base + span + 1ns + span * 2^-21: the upper bound, with the slack the
\* single-precision scaling and the rounding to nanoseconds can add.
BelowWithSlack(v, base, span) ==
    BigLe(BigShl(v, 21),
          BigAdd(BigShl(BigAdd(BigAdd(base, span), <<1>>), 21), span))

\* |off - span * k / 2^24| <= 1ns + span * 2^-21.
NearProduct(off, span, k) ==
    LET a   == BigShl(off, DRAW_BITS)
        b   == BigMul(span, BigFromInt(k))
        tol == BigAdd(BigShl(<<1>>, DRAW_BITS), BigShl(span, 3))
    IN  BigLe(a, BigAdd(b, tol)) /\ BigLe(b, BigAdd(a, tol))

\* |off - span * k / 2^24| < 1ns.
WithinOneNano(off, span, k) ==
    LET a   == BigShl(off, DRAW_BITS)
        b   == BigMul(span, BigFromInt(k))
        one == BigShl(<<1>>, DRAW_BITS)
    IN  BigLt(a, BigAdd(b, one)) /\ BigLt(b, BigAdd(a, one))

Returned(op) == last.op = op /\ last.res.some

MinNanos == TotalNanos(jitter.min)

SpanNanos == TotalNanos(jitter.interval)

ResNanos == TotalNanos(last.res.val)

RhsNanos == TotalNanos(last.rhs)

DurMaxNanos == TotalNanos(DUR_MAX)

InstantMaxNanos == TotalNanos(Dur(I64_MAX, NANOS_PER_SEC - 1))

\* What the last call adds up, exactly: min + the scaled interval + rhs.
ExactSum ==
    BigAdd(BigAdd(MinNanos,
                  TotalNanos(mul_f32(jitter.interval, DrawAsF32(last.range)).val)),
           RhsNanos)

\* Whether the last call's sums pass the largest value of their type.
Overflows ==
    \/ BigLt(DurMaxNanos, BigSub(ExactSum, RhsNanos))
    \/ last.op = "add_duration" /\ BigLt(DurMaxNanos, ExactSum)
    \/ last.op = "add_instant" /\ BigLt(InstantMaxNanos, ExactSum)

MaxOf(op) == IF op = "add_instant" THEN Dur(I64_MAX, NANOS_PER_SEC - 1) ELSE DUR_MAX

\* C4 as stated: a sum that passes the largest representable value yields
\* that largest value, and the result is >= the reference.
C4_Original ==
    last.op # "none" /\ Overflows =>
        /\ last.res = Some(MaxOf(last.op))
        /\ DurLe(last.rhs, last.res.val)

\* C4, amended: a sum that passes the largest representable value makes the
\* call panic and return nothing; every call that returns returns the exact
\* sum, never wrapped, truncated or saturated, so its result is >= the
\* reference.
C4_OverflowPanics ==
    last.op # "none" =>
        /\ Overflows <=> ~last.res.some
        /\ last.res.some => ResNanos = ExactSum /\ DurLe(last.rhs, last.res.val)

C4_Witness ==
    /\ last.op = "add_duration"
    /\ last.rhs = DUR_MAX
    /\ jitter = new(Secs(1), Secs(1))
    /\ ~last.res.some

\* C5: Jitter::NONE + d is exactly d and Jitter::NONE + t is exactly t, for
\* every draw.
C5_NoneIsIdentity ==
    ctor.fn = "NONE" /\ last.op \in {"add_duration", "add_instant"} =>
        last.res = Some(last.rhs)

C5_Witness ==
    /\ ctor.fn = "NONE"
    /\ draws = 2
    /\ last.op = "add_instant"
    /\ last.range = DRAW_MAX
    /\ last.res = Some(Dur(BigFromInt(1000), 5))

\* C6: with interval = 0, get returns exactly min for every draw.
C6_ZeroSpanIsMin ==
    jitter.interval = DUR_ZERO /\ last.op = "get" =>
        last.res = Some(jitter.min)

C6_Witness ==
    /\ jitter = new(Secs(1), DUR_ZERO)
    /\ last.op = "get"
    /\ last.range = DRAW_MAX
    /\ last.res = Some(Secs(1))

C8_Frame ==
    [][/\ jitter' = jitter
       /\ jitter' = Construct(ctor)
       /\ draws' = draws + 1
       /\ last'.res.some /\ last'.op # "get" =>
            TotalNanos(last'.res.val) =
              BigAdd(TotalNanos(get(jitter, DrawAsF32(last'.range)).val),
                     TotalNanos(last'.rhs))]_vars

C8_Witness ==
    /\ draws = 2
    /\ last.op = "add_duration"
    /\ last.res.some
    /\ jitter = new(Secs(1), Nanos(3))

\* What thread t's call returned, relative to its reference.
OutNanos(t) == TotalNanos(out[t].val)

BaseNanos(t) == BigAdd(TotalNanos(arg[t].rhs), MinNanos)

\* Thread t's result is the one-call result for its own reference and its
\* own draw, whatever the other threads did and in whatever order.
OwnResult(t) ==
    /\ pc[t] = "done" => out[t] = Apply(jitter, arg[t], range[t])
    /\ pc[t] = "panicked" => ~Apply(jitter, arg[t], range[t]).some
    /\ pc[t] \in {"draw", "scale", "add_min", "combine", "done", "panicked"}
         => draws[t] = (IF pc[t] = "draw" THEN 0 ELSE 1)

====
